---- MODULE Spec2Model ----
(***************************************************************************)
(* GoogleCampaignManagerReportSensor                                       *)
(* (providers/google/marketing_platform/sensors/campaign_manager.py).      *)
(*                                                                         *)
(* The sensor is a parameter-holding object with one operation, poke.  The *)
(* model holds the sensor's fields, the state of the task that polls it,   *)
(* and a record of the two most recent poke invocations: what each was     *)
(* given (the fields it read, the context, what the hook did) and what it  *)
(* did (hook constructions, get_report calls, log lines, their order, the  *)
(* result).                                                                *)
(***************************************************************************)
EXTENDS Integers, Sequences, FiniteSets, TLC

VARIABLES
    sensor,       \* the sensor's fields (self.*)
    init_kwargs,  \* the keyword arguments the sensor was constructed with
    taskState,    \* "constructed" | "running" | "success" | "failed" | "timed_out"
    poke_count,   \* number of poke invocations so far
    hook_count,   \* number of GoogleCampaignManagerHook objects allocated so far
    history       \* the last two poke invocations, oldest first

vars == <<sensor, init_kwargs, taskState, poke_count, hook_count, history>>

(***************************************************************************)
(* Bounds and input sets                                                   *)
(***************************************************************************)
MaxPolls == 2

\* The identifiers a sensor is constructed with, and what the host may
\* resolve them to later: the same triple, each identifier changed alone, and
\* all three changed.
BaseIds == <<"p1", "r1", "f1">>
ChangedIds == <<"p2", "r2", "f2">>
IdTriples ==
    { BaseIds, <<"p2", "r1", "f1">>, <<"p1", "r2", "f1">>, <<"p1", "r1", "f2">>, ChangedIds }
Contexts == {"ctx_a", "ctx_b"}

\* Python's None, a str and a sequence of str are kept apart by a tag.
None == [kind |-> "None", ids |-> <<>>]
ChainStr(a) == [kind |-> "str", ids |-> <<a>>]
ChainSeq(s) == [kind |-> "seq", ids |-> s]

Statuses == {"PROCESSING", "QUEUED", "AVAILABLE", "FAILED", "CANCELLED", "", "queued"}

\* The response mapping of reports().files().get(): with or without a
\* "status" key, with or without other keys.
Responses ==
    {[status |-> s] : s \in Statuses}
    \cup {[status |-> s, format |-> "CSV"] : s \in {"QUEUED", "AVAILABLE"}}
    \cup {[format |-> "CSV"]}

Ok == "ok"
HookInitErrors  == {"AirflowException"}
GetReportErrors == {"HttpError"}

\* What the hook does during one poke: its constructor raises, or
\* get_report raises, or get_report returns a response.
HookOutcomes ==
    {[hook_init |-> e, get_report |-> "unreached", response |-> [format |-> "CSV"]]
        : e \in HookInitErrors}
    \cup {[hook_init |-> Ok, get_report |-> e, response |-> [format |-> "CSV"]]
        : e \in GetReportErrors}
    \cup {[hook_init |-> Ok, get_report |-> Ok, response |-> r] : r \in Responses}

Merge(f, g) == [k \in DOMAIN f \cup DOMAIN g |-> IF k \in DOMAIN g THEN g[k] ELSE f[k]]

\* The optional keyword arguments of a construction: none, each one alone,
\* all of them.
OptionalKwargs ==
    { <<>>,
      [api_version |-> "v3"],
      [gcp_conn_id |-> "my_conn"],
      [mode |-> "poke"],
      [poke_interval |-> 60],
      [impersonation_chain |-> ChainStr("sa1")],
      [impersonation_chain |-> ChainSeq(<<"sa1", "sa2">>)],
      [api_version |-> "v3", gcp_conn_id |-> "my_conn", mode |-> "poke",
       poke_interval |-> 60, impersonation_chain |-> ChainSeq(<<"sa1", "sa2">>)] }

InitKwargs ==
    {Merge([profile_id |-> BaseIds[1], report_id |-> BaseIds[2], file_id |-> BaseIds[3]], o)
        : o \in OptionalKwargs}

(***************************************************************************)
(* The sensor                                                              *)
(***************************************************************************)
template_fields == {"profile_id", "report_id", "file_id", "impersonation_chain"}

\* Variant: self.mode is never assigned, so the base class's default stays.
init_keeps_base_mode(kwargs) ==
    [mode                |-> "poke",
     poke_interval       |-> IF "poke_interval" \in DOMAIN kwargs
                             THEN kwargs.poke_interval ELSE 60 * 5,
     profile_id          |-> kwargs.profile_id,
     report_id           |-> kwargs.report_id,
     file_id             |-> kwargs.file_id,
     api_version         |-> IF "api_version" \in DOMAIN kwargs
                             THEN kwargs.api_version ELSE "v4",
     gcp_conn_id         |-> IF "gcp_conn_id" \in DOMAIN kwargs
                             THEN kwargs.gcp_conn_id ELSE "google_cloud_default",
     impersonation_chain |-> IF "impersonation_chain" \in DOMAIN kwargs
                             THEN kwargs.impersonation_chain ELSE None]

__init__(kwargs) ==
    [mode                |-> IF "mode" \in DOMAIN kwargs THEN kwargs.mode ELSE "reschedule",
     poke_interval       |-> IF "poke_interval" \in DOMAIN kwargs
                             THEN kwargs.poke_interval ELSE 60 * 5,
     profile_id          |-> kwargs.profile_id,
     report_id           |-> kwargs.report_id,
     file_id             |-> kwargs.file_id,
     api_version         |-> IF "api_version" \in DOMAIN kwargs
                             THEN kwargs.api_version ELSE "v4",
     gcp_conn_id         |-> IF "gcp_conn_id" \in DOMAIN kwargs
                             THEN kwargs.gcp_conn_id ELSE "google_cloud_default",
     impersonation_chain |-> IF "impersonation_chain" \in DOMAIN kwargs
                             THEN kwargs.impersonation_chain ELSE None]

Return(b) == [kind |-> "return", value |-> b]
Raise(e)  == [kind |-> "raise", exc |-> e]

\* Variant: the hook of the previous poll is kept and used again.
hook_cached(self) ==
    IF history # <<>>
    THEN history[Len(history)].hook_inits[1]
    ELSE [id                  |-> hook_count + 1,
          gcp_conn_id         |-> self.gcp_conn_id,
          api_version         |-> self.api_version,
          impersonation_chain |-> self.impersonation_chain]

\* hook = GoogleCampaignManagerHook(gcp_conn_id=..., api_version=..., impersonation_chain=...)
GoogleCampaignManagerHook(self) ==
    [id                  |-> hook_count + 1,
     gcp_conn_id         |-> self.gcp_conn_id,
     api_version         |-> self.api_version,
     impersonation_chain |-> self.impersonation_chain]

\* Variant: report_id and file_id change places.
get_report_swapped(hook, self) ==
    [hook       |-> hook.id,
     profile_id |-> self.profile_id,
     report_id  |-> self.file_id,
     file_id    |-> self.report_id]

\* hook.get_report(profile_id=self.profile_id, report_id=self.report_id, file_id=self.file_id)
get_report(hook, self) ==
    [hook       |-> hook.id,
     profile_id |-> self.profile_id,
     report_id  |-> self.report_id,
     file_id    |-> self.file_id]

\* Variant: the line logs another key of the response.
log_info_other_key(response) ==
    [msg  |-> "Report status: %s",
     args |-> <<IF "format" \in DOMAIN response THEN response.format ELSE "None">>]

\* self.log.info("Report status: %s", response["status"])
log_info(response) == [msg |-> "Report status: %s", args |-> <<response.status>>]

\* Variant: only "PROCESSING" counts as in progress.
not_in_progress_only_processing(response) == response.status # "PROCESSING"

\* Variant: a failed report is reported as not ready.
not_in_progress_failed_pending(response) ==
    response.status \notin {"PROCESSING", "QUEUED", "FAILED"}

\* Variant: readiness also asks for the file's format in the response.
not_in_progress_needs_format(response) ==
    response.status \notin {"PROCESSING", "QUEUED"} /\ "format" \in DOMAIN response

\* response["status"] not in ("PROCESSING", "QUEUED")
not_in_progress(response) == response.status \notin {"PROCESSING", "QUEUED"}

\* Variant: a failure of get_report is caught and reported as "not ready".
poke_swallows(self, context, env) ==
    LET hook == GoogleCampaignManagerHook(self)
        call == get_report(hook, self)
    IN  IF env.hook_init # Ok
        THEN [self |-> self, hook_inits |-> <<hook>>, get_reports |-> <<>>, logs |-> <<>>,
              order |-> <<"hook_init", "raise">>, result |-> Raise(env.hook_init)]
        ELSE IF env.get_report # Ok
        THEN [self |-> self, hook_inits |-> <<hook>>, get_reports |-> <<call>>, logs |-> <<>>,
              order |-> <<"hook_init", "get_report", "return">>, result |-> Return(FALSE)]
        ELSE IF "status" \notin DOMAIN env.response
        THEN [self |-> self, hook_inits |-> <<hook>>, get_reports |-> <<call>>, logs |-> <<>>,
              order |-> <<"hook_init", "get_report", "raise">>, result |-> Raise("KeyError: 'status'")]
        ELSE [self |-> self, hook_inits |-> <<hook>>, get_reports |-> <<call>>,
              logs |-> <<log_info(env.response)>>,
              order |-> <<"hook_init", "get_report", "log_info", "return">>,
              result |-> Return(not_in_progress(env.response))]

\* Variant: the status is read with response.get("status"), so a missing
\* key reads as None, which is logged and is "not in progress".
poke_status_get(self, context, env) ==
    LET hook == GoogleCampaignManagerHook(self)
        call == get_report(hook, self)
    IN  IF env.hook_init # Ok
        THEN [self |-> self, hook_inits |-> <<hook>>, get_reports |-> <<>>, logs |-> <<>>,
              order |-> <<"hook_init", "raise">>, result |-> Raise(env.hook_init)]
        ELSE IF env.get_report # Ok
        THEN [self |-> self, hook_inits |-> <<hook>>, get_reports |-> <<call>>, logs |-> <<>>,
              order |-> <<"hook_init", "get_report", "raise">>, result |-> Raise(env.get_report)]
        ELSE IF "status" \notin DOMAIN env.response
        THEN [self |-> self, hook_inits |-> <<hook>>, get_reports |-> <<call>>,
              logs |-> <<[msg |-> "Report status: %s", args |-> <<"None">>]>>,
              order |-> <<"hook_init", "get_report", "log_info", "return">>,
              result |-> Return(TRUE)]
        ELSE [self |-> self, hook_inits |-> <<hook>>, get_reports |-> <<call>>,
              logs |-> <<log_info(env.response)>>,
              order |-> <<"hook_init", "get_report", "log_info", "return">>,
              result |-> Return(not_in_progress(env.response))]

\* Variant: the report's file id is remembered on the sensor as "f_seen".
poke_writes_field(self, context, env) ==
    LET hook == GoogleCampaignManagerHook(self)
        call == get_report(hook, self)
        seen == [self EXCEPT !.file_id = "f_seen"]
    IN  IF env.hook_init # Ok
        THEN [self |-> self, hook_inits |-> <<hook>>, get_reports |-> <<>>, logs |-> <<>>,
              order |-> <<"hook_init", "raise">>, result |-> Raise(env.hook_init)]
        ELSE IF env.get_report # Ok
        THEN [self |-> self, hook_inits |-> <<hook>>, get_reports |-> <<call>>, logs |-> <<>>,
              order |-> <<"hook_init", "get_report", "raise">>, result |-> Raise(env.get_report)]
        ELSE IF "status" \notin DOMAIN env.response
        THEN [self |-> self, hook_inits |-> <<hook>>, get_reports |-> <<call>>, logs |-> <<>>,
              order |-> <<"hook_init", "get_report", "raise">>, result |-> Raise("KeyError: 'status'")]
        ELSE [self |-> seen, hook_inits |-> <<hook>>, get_reports |-> <<call>>,
              logs |-> <<log_info(env.response)>>,
              order |-> <<"hook_init", "get_report", "log_info", "return">>,
              result |-> Return(not_in_progress(env.response))]

\* One invocation of poke: the fields of self afterwards, the calls made
\* and lines logged in program order, and the result.
poke(self, context, env) ==
    LET hook == GoogleCampaignManagerHook(self)
        call == get_report(hook, self)
    IN  IF env.hook_init # Ok
        THEN [self |-> self, hook_inits |-> <<hook>>, get_reports |-> <<>>, logs |-> <<>>,
              order |-> <<"hook_init", "raise">>, result |-> Raise(env.hook_init)]
        ELSE IF env.get_report # Ok
        THEN [self |-> self, hook_inits |-> <<hook>>, get_reports |-> <<call>>, logs |-> <<>>,
              order |-> <<"hook_init", "get_report", "raise">>, result |-> Raise(env.get_report)]
        ELSE IF "status" \notin DOMAIN env.response
        THEN [self |-> self, hook_inits |-> <<hook>>, get_reports |-> <<call>>, logs |-> <<>>,
              order |-> <<"hook_init", "get_report", "raise">>, result |-> Raise("KeyError: 'status'")]
        ELSE [self |-> self, hook_inits |-> <<hook>>, get_reports |-> <<call>>,
              logs |-> <<log_info(env.response)>>,
              order |-> <<"hook_init", "get_report", "log_info", "return">>,
              result |-> Return(not_in_progress(env.response))]

(***************************************************************************)
(* The host: template rendering and the polling loop                       *)
(***************************************************************************)
\* What the templated fields may resolve to: one of the identifier triples
\* with the chain as it is, or, for a chain given as a templated str, the
\* changed triple with one account or the other.
Rendered(chain) ==
    {<<t[1], t[2], t[3], chain>> : t \in IdTriples}
    \cup (IF chain.kind = "str"
          THEN {<<ChangedIds[1], ChangedIds[2], ChangedIds[3], ChainStr(a)>> : a \in {"sa1", "sa2"}}
          ELSE {})

\* The host resolves the templated fields before a poll.
render_templates ==
    /\ taskState \in {"constructed", "running"}
    /\ \E t \in Rendered(sensor.impersonation_chain) :
          LET new == [profile_id |-> t[1], report_id |-> t[2], file_id |-> t[3],
                      impersonation_chain |-> t[4]]
          IN  sensor' = [k \in DOMAIN sensor |->
                            IF k \in template_fields THEN new[k] ELSE sensor[k]]
    /\ taskState' = "running"
    /\ UNCHANGED <<init_kwargs, poke_count, hook_count, history>>

Remember(inv) ==
    IF Len(history) = 2 THEN <<history[2], inv>> ELSE Append(history, inv)

\* One poll: the host calls poke; True ends the task, False leaves it to be
\* polled again, an exception fails it.
execute ==
    /\ taskState = "running"
    /\ poke_count < MaxPolls
    /\ \E context \in Contexts, env \in HookOutcomes :
          LET r == poke(sensor, context, env)
          IN  /\ sensor' = r.self
              /\ history' = Remember(
                    [n |-> poke_count + 1, self |-> sensor, context |-> context, env |-> env,
                     hook_inits |-> r.hook_inits, get_reports |-> r.get_reports,
                     logs |-> r.logs, order |-> r.order, result |-> r.result])
              /\ hook_count' = hook_count + Len(r.hook_inits)
              /\ taskState' = IF r.result.kind = "raise" THEN "failed"
                              ELSE IF r.result.value THEN "success" ELSE "running"
    /\ poke_count' = poke_count + 1
    /\ UNCHANGED init_kwargs

\* The host gives up; the sensor is not invoked again.
timeout ==
    /\ taskState = "running"
    /\ taskState' = "timed_out"
    /\ UNCHANGED <<sensor, init_kwargs, poke_count, hook_count, history>>

Init ==
    /\ init_kwargs \in InitKwargs
    /\ sensor = __init__(init_kwargs)
    /\ taskState = "constructed"
    /\ poke_count = 0
    /\ hook_count = 0
    /\ history = <<>>

Next == render_templates \/ execute \/ timeout

Spec == Init /\ [][Next]_vars

(***************************************************************************)
(* A task execution after the first one constructs the sensor anew; the    *)
(* record of earlier invocations is kept for comparison.                   *)
(***************************************************************************)
RunKwargs ==
    { [profile_id |-> BaseIds[1], report_id |-> BaseIds[2], file_id |-> BaseIds[3]],
      [profile_id |-> ChangedIds[1], report_id |-> ChangedIds[2], file_id |-> ChangedIds[3],
       api_version |-> "v3", gcp_conn_id |-> "my_conn", mode |-> "poke",
       poke_interval |-> 60, impersonation_chain |-> ChainStr("sa2")] }

reconstruct ==
    /\ taskState # "running"
    /\ \E kwargs \in RunKwargs :
          /\ init_kwargs' = kwargs
          /\ sensor' = __init__(kwargs)
    /\ taskState' = "running"
    /\ UNCHANGED <<poke_count, hook_count, history>>

NextRuns == reconstruct \/ execute \/ timeout

SpecRuns == Init /\ [][NextRuns]_vars

(***************************************************************************)
(* Properties                                                              *)
(***************************************************************************)
Polls == 1..Len(history)

\* get_report was called and returned a response
GotResponse(inv) == inv.env.hook_init = Ok /\ inv.env.get_report = Ok

\* ... and the response has a "status" key
GotStatus(inv) == GotResponse(inv) /\ "status" \in DOMAIN inv.env.response

StatusOf(inv) == inv.env.response.status

\* C1: a poke that receives status s returns False if and only if s is
\* exactly "PROCESSING" or exactly "QUEUED", and returns True for every other
\* string.
C1_ResultByStatus ==
    \A i \in Polls :
        GotStatus(history[i]) =>
            /\ history[i].result.kind = "return"
            /\ IF StatusOf(history[i]) = "PROCESSING" \/ StatusOf(history[i]) = "QUEUED"
               THEN history[i].result.value = FALSE
               ELSE history[i].result.value = TRUE

C1_Witness ==
    /\ Len(history) = 2
    /\ GotStatus(history[1]) /\ StatusOf(history[1]) = "QUEUED"
    /\ history[1].result = Return(FALSE)
    /\ GotStatus(history[2]) /\ StatusOf(history[2]) = "queued"
    /\ history[2].result = Return(TRUE)

\* C2: when the hook's constructor or get_report raises, poke raises that
\* same exception, returns nothing, logs nothing and does not call
\* get_report a second time.
C2_FailurePropagates ==
    \A i \in Polls :
        /\ history[i].env.hook_init # Ok =>
              /\ history[i].result = Raise(history[i].env.hook_init)
              /\ history[i].logs = <<>>
              /\ history[i].get_reports = <<>>
              /\ history[i].order = <<"hook_init", "raise">>
        /\ (history[i].env.hook_init = Ok /\ history[i].env.get_report # Ok) =>
              /\ history[i].result = Raise(history[i].env.get_report)
              /\ history[i].logs = <<>>
              /\ Len(history[i].get_reports) = 1
              /\ history[i].order = <<"hook_init", "get_report", "raise">>

C2_Witness ==
    /\ Len(history) = 2
    /\ history[2].env.hook_init = Ok
    /\ history[2].env.get_report = "HttpError"
    /\ history[2].result = Raise("HttpError")
    /\ taskState = "failed"

\* C3: a poke that returns has called get_report exactly once, with the
\* sensor's profile_id, report_id and file_id of that moment, each under its
\* own name.
C3_OneCallWithIds ==
    \A i \in Polls :
        history[i].result.kind = "return" =>
            /\ Len(history[i].get_reports) = 1
            /\ history[i].get_reports[1].profile_id = history[i].self.profile_id
            /\ history[i].get_reports[1].report_id = history[i].self.report_id
            /\ history[i].get_reports[1].file_id = history[i].self.file_id

C3_Witness ==
    /\ Len(history) = 2
    /\ history[1].result.kind = "return"
    /\ history[1].get_reports = <<[hook |-> 1, profile_id |-> "p1", report_id |-> "r2",
                                   file_id |-> "f1"]>>
    /\ history[2].result.kind = "return"
    /\ history[2].get_reports = <<[hook |-> 2, profile_id |-> "p1", report_id |-> "r1",
                                   file_id |-> "f2"]>>

\* C4: a poll that observes "FAILED" or "CANCELLED" returns True and ends
\* the polling with success, exactly as one that observes "AVAILABLE"; no
\* later poll follows it.
C4_FailedReportEndsPolling ==
    \A i \in Polls :
        (GotStatus(history[i]) /\ StatusOf(history[i]) \in {"FAILED", "CANCELLED", "AVAILABLE"}) =>
            /\ history[i].result = Return(TRUE)
            /\ i = Len(history)
            /\ history[i].n = poke_count
            /\ taskState = "success"

C4_Witness ==
    /\ Len(history) = 2
    /\ GotStatus(history[1]) /\ StatusOf(history[1]) = "PROCESSING"
    /\ history[1].result = Return(FALSE)
    /\ GotStatus(history[2]) /\ StatusOf(history[2]) = "FAILED"
    /\ history[2].result = Return(TRUE)
    /\ taskState = "success"

\* C5: a constructed sensor holds each optional argument as given, or its
\* default when not given ("v4", "google_cloud_default", "reschedule", 300,
\* None), and holds the three identifiers as given.
C5_ConstructionDefaults ==
    /\ sensor.api_version =
          IF "api_version" \in DOMAIN init_kwargs THEN init_kwargs.api_version ELSE "v4"
    /\ sensor.gcp_conn_id =
          IF "gcp_conn_id" \in DOMAIN init_kwargs THEN init_kwargs.gcp_conn_id
          ELSE "google_cloud_default"
    /\ sensor.mode = IF "mode" \in DOMAIN init_kwargs THEN init_kwargs.mode ELSE "reschedule"
    /\ sensor.poke_interval =
          IF "poke_interval" \in DOMAIN init_kwargs THEN init_kwargs.poke_interval ELSE 300
    /\ taskState = "constructed" =>
          /\ sensor.impersonation_chain =
                IF "impersonation_chain" \in DOMAIN init_kwargs
                THEN init_kwargs.impersonation_chain ELSE [kind |-> "None", ids |-> <<>>]
          /\ sensor.profile_id = init_kwargs.profile_id
          /\ sensor.report_id = init_kwargs.report_id
          /\ sensor.file_id = init_kwargs.file_id

C5_Witness ==
    /\ taskState = "constructed"
    /\ DOMAIN init_kwargs = {"profile_id", "report_id", "file_id"}
    /\ sensor.api_version = "v4"
    /\ sensor.gcp_conn_id = "google_cloud_default"
    /\ sensor.mode = "reschedule"
    /\ sensor.poke_interval = 300
    /\ sensor.impersonation_chain.kind = "None"
    /\ <<sensor.profile_id, sensor.report_id, sensor.file_id>> = <<"p1", "r1", "f1">>

\* C6: a poke that receives a status logs exactly one line, carrying the
\* status received, the one the result is computed from; the line comes
\* after the get_report call and before the return.
C6_OneLogLine ==
    \A i \in Polls :
        GotStatus(history[i]) =>
            /\ Len(history[i].logs) = 1
            /\ history[i].logs[1].args = <<StatusOf(history[i])>>
            /\ history[i].order = <<"hook_init", "get_report", "log_info", "return">>
            /\ history[i].result.kind = "return"
            /\ history[i].result.value = (history[i].logs[1].args[1] \notin {"PROCESSING", "QUEUED"})

C6_Witness ==
    /\ Len(history) = 2
    /\ history[1].env.response = [status |-> "QUEUED", format |-> "CSV"]
    /\ history[1].logs = <<[msg |-> "Report status: %s", args |-> <<"QUEUED">>]>>
    /\ history[2].env.response = [status |-> "AVAILABLE", format |-> "CSV"]
    /\ history[2].logs = <<[msg |-> "Report status: %s", args |-> <<"AVAILABLE">>]>>

\* C7: every poke constructs one hook, from the sensor's gcp_conn_id,
\* api_version and impersonation_chain of that moment, and calls get_report on
\* that hook; no two polls share a hook, and as many hooks are constructed as
\* there are poke invocations.
C7_FreshHookPerPoke ==
    /\ hook_count = poke_count
    /\ \A i \in Polls :
          /\ Len(history[i].hook_inits) = 1
          /\ history[i].hook_inits[1].gcp_conn_id = history[i].self.gcp_conn_id
          /\ history[i].hook_inits[1].api_version = history[i].self.api_version
          /\ history[i].hook_inits[1].impersonation_chain = history[i].self.impersonation_chain
          /\ \A k \in 1..Len(history[i].get_reports) :
                history[i].get_reports[k].hook = history[i].hook_inits[1].id
          /\ \A j \in Polls : j < i => history[j].hook_inits[1].id < history[i].hook_inits[1].id

C7_Witness ==
    /\ Len(history) = 2
    /\ history[1].hook_inits[1].impersonation_chain = [kind |-> "str", ids |-> <<"sa1">>]
    /\ history[2].hook_inits[1].impersonation_chain = [kind |-> "str", ids |-> <<"sa2">>]
    /\ history[1].get_reports # <<>> /\ history[1].get_reports[1].hook = 1
    /\ history[2].get_reports # <<>> /\ history[2].get_reports[1].hook = 2
    /\ hook_count = 2

\* C8: when the response has no "status" key, poke raises a KeyError after
\* its one get_report call: it returns neither True nor False and logs
\* nothing.
C8_MissingStatusRaises ==
    \A i \in Polls :
        (GotResponse(history[i]) /\ "status" \notin DOMAIN history[i].env.response) =>
            /\ history[i].result = Raise("KeyError: 'status'")
            /\ history[i].logs = <<>>
            /\ Len(history[i].get_reports) = 1
            /\ history[i].order = <<"hook_init", "get_report", "raise">>
            /\ i = Len(history) => taskState = "failed"

C8_Witness ==
    /\ Len(history) = 2
    /\ GotResponse(history[2])
    /\ history[2].env.response = [format |-> "CSV"]
    /\ history[2].result.kind = "raise"
    /\ taskState = "failed"

\* C9: a poke changes no field of the sensor, whatever its outcome, and the
\* hook arguments and get_report arguments it passes are the fields as they
\* are at that invocation.
C9_PokeReadsAndKeepsFields ==
    [][poke_count' # poke_count =>
          /\ sensor' = sensor
          /\ LET inv == history'[Len(history')]
             IN  /\ inv.n = poke_count'
                 /\ inv.hook_inits[1].gcp_conn_id = sensor.gcp_conn_id
                 /\ inv.hook_inits[1].api_version = sensor.api_version
                 /\ inv.hook_inits[1].impersonation_chain = sensor.impersonation_chain
                 /\ \A k \in 1..Len(inv.get_reports) :
                       /\ inv.get_reports[k].profile_id = sensor.profile_id
                       /\ inv.get_reports[k].report_id = sensor.report_id
                       /\ inv.get_reports[k].file_id = sensor.file_id]_vars

C9_Witness ==
    /\ Len(history) = 2
    /\ history[1].self.file_id = "f1" /\ history[2].self.file_id = "f2"
    /\ history[1].result = Return(FALSE)
    /\ history[1].get_reports # <<>> /\ history[1].get_reports[1].file_id = "f1"
    /\ history[2].get_reports # <<>> /\ history[2].get_reports[1].file_id = "f2"
    /\ history[2].result.kind = "raise"
    /\ sensor = history[2].self

\* C10: two invocations that receive the same status return the same
\* value, whatever the sensor's fields, the context and the rest of the
\* response are, and whatever earlier polls returned.
C10_ResultDependsOnStatusOnly ==
    \A i \in Polls, j \in Polls :
        (GotStatus(history[i]) /\ GotStatus(history[j])
            /\ StatusOf(history[i]) = StatusOf(history[j])) =>
            history[i].result = history[j].result

C10_Witness ==
    /\ Len(history) = 2
    /\ GotStatus(history[1]) /\ GotStatus(history[2])
    /\ StatusOf(history[1]) = "AVAILABLE" /\ StatusOf(history[2]) = "AVAILABLE"
    /\ \A f \in DOMAIN sensor : history[1].self[f] # history[2].self[f]
    /\ history[1].context # history[2].context
    /\ DOMAIN history[1].env.response # DOMAIN history[2].env.response
    /\ history[1].result = history[2].result

====
